---- MODULE Spec2Model ----
(***************************************************************************)
(* SettingsPage of bilibili_spider (pages/settings_page.py): the cookie    *)
(* (credential) lifecycle, the crawler parameter editor and the database   *)
(* maintenance panel, as a state machine with one action per slot.         *)
(*                                                                         *)
(* A cookie text is a sequence of tokens: the three required sub-fields    *)
(* and a whitespace token.  Config, the database handler and CookieHelper  *)
(* are collaborators whose code is outside settings_page.py.               *)
(***************************************************************************)
EXTENDS Integers, Sequences, FiniteSets

\* ---------------------------------------------------------------- bounds
\* most whitespace tokens in one cookie text
MaxPad == 1
\* most CookieHelper objects constructed in one run
MaxHelpers == 2
\* most stored comment rows
MaxComments == 2
\* spin box values the user picks: 0..MaxEdit and the top of the range
MaxEdit == 10
\* most value changes of the spin boxes in one run
MaxWrites == 3

\* ------------------------------------------------------ program constants
DelayRangeMin == 0
DelayRangeMax == 100
RetryRangeMin == 0
RetryRangeMax == 10

\* ----------------------------------------------------------- cookie texts
WS == " "
RequiredFields == <<"SESSDATA", "bili_jct", "DedeUserID">>
FieldSet == {RequiredFields[i] : i \in 1..Len(RequiredFields)}
Tokens == FieldSet \cup {WS}

FieldIndex(f) == CHOOSE i \in 1..Len(RequiredFields) : RequiredFields[i] = f

Range(s) == {s[i] : i \in 1..Len(s)}

PadCount(s) == Cardinality({i \in 1..Len(s) : s[i] = WS})

\* the sub-fields of a text appear at most once each, in one order
Ordered(s) ==
    \A i, j \in 1..Len(s) :
        (i < j /\ s[i] # WS /\ s[j] # WS) => FieldIndex(s[i]) < FieldIndex(s[j])

Texts ==
    {s \in UNION {[1..n -> Tokens] : n \in 0..(Len(RequiredFields) + MaxPad)} :
        Ordered(s) /\ PadCount(s) <= MaxPad}

\* Python's None where a cookie text is expected
NoCookie == <<"None">>

RECURSIVE lstrip(_)
lstrip(s) == IF s # <<>> /\ Head(s) = WS THEN lstrip(Tail(s)) ELSE s

RECURSIVE rstrip(_)
rstrip(s) ==
    IF s # <<>> /\ s[Len(s)] = WS THEN rstrip(SubSeq(s, 1, Len(s) - 1)) ELSE s

\* str.strip()
strip(s) == rstrip(lstrip(s))

\* ------------------------------------------------------------ collaborators
\* Config.validate_cookie: the three required sub-fields are present
Config_validate_cookie(cookie) == FieldSet \subseteq Range(cookie)

\* Config.set_cookie: the in-memory cookie after the call, and its result
Config_set_cookie(old, cookie) ==
    IF Config_validate_cookie(cookie)
        THEN [ok |-> TRUE, cookie |-> cookie]
        ELSE [ok |-> FALSE, cookie |-> old]

\* Config.clear_cookie: the in-memory cookie after the call
Config_clear_cookie == NoCookie

\* db_handler.get_valid_cookie() on a database holding cookie c
Db_get_valid_cookie(c, need) ==
    IF c = NoCookie THEN <<NoCookie, FALSE>> ELSE <<c, need>>

\* db_handler.save_cookie(cookie): the stored cookie and its near-expiry flag
Db_save_cookie(cookie) == <<cookie, FALSE>>

\* db_handler.clear_cookies(): the stored cookie and its near-expiry flag
Db_clear_cookies == <<NoCookie, FALSE>>

\* db_handler.clear_database(): the stored comment rows
Db_clear_database == 0

\* the calls that may raise: the database's, and CookieHelper's constructor
FailPoints ==
    {"none", "get_valid_cookie", "save_cookie", "clear_cookies", "clear_database",
     "CookieHelper"}

Call(fn, arg) == [fn |-> fn, arg |-> arg]
Notice(level, text) == [level |-> level, text |-> text]

VARIABLES
    cookie_input,         \* text of the QTextEdit
    cookie_status_label,  \* "initial", "unset", "expiring", "valid"
    cfgCookie,            \* Config's in-memory cookie, or NoCookie
    dbCookie,             \* the cookie the database holds, or NoCookie
    dbNeedUpdate,         \* the database's near-expiry flag of that cookie
    dbComments,           \* number of stored comment rows
    min_delay, max_delay, max_retries,     \* spin box values
    DELAY_MIN, DELAY_MAX, MAX_RETRIES,     \* Config attributes
    cookie_helper,        \* 0 (None) or the id of the helper the page refers to
    helperState,          \* id -> "unborn", "active", "cleaned"
    closed,               \* closeEvent was handled
    nWrites,              \* value changes of the spin boxes so far
    last                  \* the last slot run: its calls and message boxes

cookieVars == <<cookie_input, cookie_status_label, cfgCookie, dbCookie, dbNeedUpdate>>
crawlerVars == <<min_delay, max_delay, max_retries, DELAY_MIN, DELAY_MAX, MAX_RETRIES, nWrites>>
helperVars == <<cookie_helper, helperState, closed>>
vars == <<cookieVars, crawlerVars, helperVars, dbComments, last>>

Slot(op, calls, notices) == [op |-> op, calls |-> calls, notices |-> notices]

\* ---------------------------------------------------------------- a slot run
\* A run of a slot over the cookie state: the state as the slot has left it so
\* far, the collaborator calls it has made and the message boxes it has shown.
Here ==
    [input |-> cookie_input, label |-> cookie_status_label, cfg |-> cfgCookie,
     db |-> dbCookie, need |-> dbNeedUpdate, calls |-> <<>>, notices |-> <<>>]

Called(r, call) == [r EXCEPT !.calls = Append(@, call)]
Shown(r, notice) == [r EXCEPT !.notices = Append(@, notice)]

\* the run is what the slot did: the page and the collaborators take its state
Apply(op, r) ==
    /\ cookie_input' = r.input
    /\ cookie_status_label' = r.label
    /\ cfgCookie' = r.cfg
    /\ dbCookie' = r.db
    /\ dbNeedUpdate' = r.need
    /\ last' = Slot(op, r.calls, r.notices)

\* fail names the database call that raises: only a call the run makes can
Reaches(r, fail) == fail = "none" \/ \E i \in 1..Len(r.calls) : r.calls[i].fn = fail

\* mutant: the text is read without strip()
input_cookie_raw(text) == text

\* cookie = self.cookie_input.toPlainText().strip()
input_cookie(text) == strip(text)

\* mutant: the reply to the confirmation is not looked at
Confirmed_any(reply) == TRUE

\* reply == QMessageBox.StandardButton.Yes
Replies == {"Yes", "No"}
Confirmed(reply) == reply = "Yes"

\* ------------------------------------------------------------ load_settings
\* mutant: the two branches on need_update are swapped
load_settings_run_swapped(r, fail) ==
    LET asked == Called(r, Call("get_valid_cookie", <<>>))
        got == Db_get_valid_cookie(r.db, r.need)
        cookie == got[1]
        need_update == got[2]
    IN  IF fail = "get_valid_cookie"
            THEN Shown(asked, Notice("critical", "load_failed"))
        ELSE IF cookie # NoCookie /\ cookie # <<>>
            THEN [asked EXCEPT !.input = cookie,
                               !.label = IF need_update THEN "valid" ELSE "expiring"]
        ELSE [asked EXCEPT !.label = "unset"]

load_settings_run(r, fail) ==
    LET asked == Called(r, Call("get_valid_cookie", <<>>))
        got == Db_get_valid_cookie(r.db, r.need)
        cookie == got[1]
        need_update == got[2]
    IN  IF fail = "get_valid_cookie"
            THEN Shown(asked, Notice("critical", "load_failed"))
        ELSE IF cookie # NoCookie /\ cookie # <<>>
            THEN [asked EXCEPT !.input = cookie,
                               !.label = IF need_update THEN "expiring" ELSE "valid"]
        ELSE [asked EXCEPT !.label = "unset"]

load_settings(fail) ==
    /\ ~closed
    /\ Reaches(load_settings_run(Here, fail), fail)
    /\ Apply("load_settings", load_settings_run(Here, fail))
    /\ UNCHANGED <<crawlerVars, helperVars, dbComments>>

\* the texts CookieHelper emits and the database holds at start: no padding
HelperCookies == {t \in Texts : strip(t) = t}
StoredCookies == {t \in HelperCookies : Config_validate_cookie(t)}

ClampTo(lo, hi, v) == IF v < lo THEN lo ELSE IF v > hi THEN hi ELSE v

EditValues == (0..MaxEdit) \cup {DelayRangeMax}
ConfigValues == EditValues \cup {DelayRangeMax + 1}

\* the widgets as init_ui leaves them, over what Config and the database hold
Built ==
    [input |-> <<>>, label |-> "initial", cfg |-> cfgCookie,
     db |-> dbCookie, need |-> dbNeedUpdate, calls |-> <<>>, notices |-> <<>>]

\* The page after __init__: init_ui, then load_settings.
Init ==
    /\ dbCookie \in {NoCookie} \cup StoredCookies
    /\ dbNeedUpdate \in BOOLEAN
    /\ (dbCookie = NoCookie => dbNeedUpdate = FALSE)
    /\ cfgCookie = dbCookie
    /\ \E fail \in {"none", "get_valid_cookie"} :
         LET r == load_settings_run(Built, fail)
         IN  /\ cookie_input = r.input
             /\ cookie_status_label = r.label
             /\ last = Slot("__init__", r.calls, r.notices)
    /\ dbComments \in 0..MaxComments
    /\ DELAY_MIN \in ConfigValues
    /\ DELAY_MAX \in ConfigValues
    /\ MAX_RETRIES \in ConfigValues
    /\ min_delay = ClampTo(DelayRangeMin, DelayRangeMax, DELAY_MIN)
    /\ max_delay = ClampTo(DelayRangeMin, DelayRangeMax, DELAY_MAX)
    /\ max_retries = ClampTo(RetryRangeMin, RetryRangeMax, MAX_RETRIES)
    /\ cookie_helper = 0
    /\ helperState = [h \in 1..MaxHelpers |-> "unborn"]
    /\ closed = FALSE
    /\ nWrites = 0

\* ------------------------------------------------------------ the user types
\* the user replaces the text of the cookie input
edit_cookie_input(t) ==
    /\ ~closed
    /\ t # cookie_input
    /\ cookie_input' = t
    /\ last' = Slot("edit_cookie_input", <<>>, <<>>)
    /\ UNCHANGED <<cookie_status_label, cfgCookie, dbCookie, dbNeedUpdate>>
    /\ UNCHANGED <<crawlerVars, helperVars, dbComments>>

\* ---------------------------------------------------------- validate_cookie
validate_cookie_run(r) ==
    LET cookie == input_cookie(r.input)
    IN  IF cookie = <<>>
            THEN Shown(r, Notice("warning", "empty"))
        ELSE IF Config_validate_cookie(cookie)
            THEN Shown(Called(r, Call("validate_cookie", cookie)),
                       Notice("information", "format_ok"))
        ELSE Shown(Called(r, Call("validate_cookie", cookie)),
                   Notice("warning", "malformed"))

validate_cookie ==
    /\ ~closed
    /\ Apply("validate_cookie", validate_cookie_run(Here))
    /\ UNCHANGED <<crawlerVars, helperVars, dbComments>>

\* -------------------------------------------------------------- save_cookie
\* mutant: the old cookie is cleared before the empty check
save_cookie_run_clears_first(r, fail) ==
    LET cookie == input_cookie(r.input)
        cleared == Called([r EXCEPT !.cfg = Config_clear_cookie],
                          Call("clear_cookie", <<>>))
        set == Config_set_cookie(cleared.cfg, cookie)
        tried == Called([cleared EXCEPT !.cfg = set.cookie], Call("set_cookie", cookie))
        saving == Called(tried, Call("save_cookie", cookie))
        saved == [saving EXCEPT !.db = Db_save_cookie(cookie)[1],
                                !.need = Db_save_cookie(cookie)[2]]
    IN  IF cookie = <<>>
            THEN Shown(cleared, Notice("warning", "empty"))
        ELSE IF ~set.ok
            THEN Shown(tried, Notice("warning", "malformed"))
        ELSE IF fail = "save_cookie"
            THEN Shown(saving, Notice("critical", "save_failed"))
        ELSE Shown(load_settings_run(saved, fail), Notice("information", "saved"))

\* mutant: the old cookie is not cleared before the new one is set
save_cookie_run_keeps_old(r, fail) ==
    LET cookie == input_cookie(r.input)
        set == Config_set_cookie(r.cfg, cookie)
        tried == Called([r EXCEPT !.cfg = set.cookie], Call("set_cookie", cookie))
        saving == Called(tried, Call("save_cookie", cookie))
        saved == [saving EXCEPT !.db = Db_save_cookie(cookie)[1],
                                !.need = Db_save_cookie(cookie)[2]]
    IN  IF cookie = <<>>
            THEN Shown(r, Notice("warning", "empty"))
        ELSE IF ~set.ok
            THEN Shown(tried, Notice("warning", "malformed"))
        ELSE IF fail = "save_cookie"
            THEN Shown(saving, Notice("critical", "save_failed"))
        ELSE Shown(load_settings_run(saved, fail), Notice("information", "saved"))

save_cookie_run(r, fail) ==
    LET cookie == input_cookie(r.input)
        cleared == Called([r EXCEPT !.cfg = Config_clear_cookie],
                          Call("clear_cookie", <<>>))
        set == Config_set_cookie(cleared.cfg, cookie)
        tried == Called([cleared EXCEPT !.cfg = set.cookie], Call("set_cookie", cookie))
        saving == Called(tried, Call("save_cookie", cookie))
        saved == [saving EXCEPT !.db = Db_save_cookie(cookie)[1],
                                !.need = Db_save_cookie(cookie)[2]]
    IN  IF cookie = <<>>
            THEN Shown(r, Notice("warning", "empty"))
        ELSE IF ~set.ok
            THEN Shown(tried, Notice("warning", "malformed"))
        ELSE IF fail = "save_cookie"
            THEN Shown(saving, Notice("critical", "save_failed"))
        ELSE Shown(load_settings_run(saved, fail), Notice("information", "saved"))

save_cookie(fail) ==
    /\ ~closed
    /\ Reaches(save_cookie_run(Here, fail), fail)
    /\ Apply("save_cookie", save_cookie_run(Here, fail))
    /\ UNCHANGED <<crawlerVars, helperVars, dbComments>>

\* ------------------------------------------------------------- clear_cookie
\* mutant: the input field is not cleared
clear_cookie_run_keeps_input(r, reply, fail) ==
    LET asked == Shown(r, Notice("question", reply))
        forgot == Called([asked EXCEPT !.cfg = Config_clear_cookie],
                         Call("clear_cookie", <<>>))
        clearing == Called(forgot, Call("clear_cookies", <<>>))
        cleared == [clearing EXCEPT !.db = Db_clear_cookies[1],
                                    !.need = Db_clear_cookies[2]]
    IN  IF ~Confirmed(reply)
            THEN asked
        ELSE IF fail = "clear_cookies"
            THEN Shown(clearing, Notice("critical", "clear_failed"))
        ELSE Shown(load_settings_run(cleared, fail), Notice("information", "cleared"))

clear_cookie_run(r, reply, fail) ==
    LET asked == Shown(r, Notice("question", reply))
        emptied == [asked EXCEPT !.input = <<>>]
        forgot == Called([emptied EXCEPT !.cfg = Config_clear_cookie],
                         Call("clear_cookie", <<>>))
        clearing == Called(forgot, Call("clear_cookies", <<>>))
        cleared == [clearing EXCEPT !.db = Db_clear_cookies[1],
                                    !.need = Db_clear_cookies[2]]
    IN  IF ~Confirmed(reply)
            THEN asked
        ELSE IF fail = "clear_cookies"
            THEN Shown(clearing, Notice("critical", "clear_failed"))
        ELSE Shown(load_settings_run(cleared, fail), Notice("information", "cleared"))

clear_cookie(reply, fail) ==
    /\ ~closed
    /\ Reaches(clear_cookie_run(Here, reply, fail), fail)
    /\ Apply("clear_cookie", clear_cookie_run(Here, reply, fail))
    /\ UNCHANGED <<crawlerVars, helperVars, dbComments>>

\* ------------------------------------------------------- the database's clock
\* the stored cookie comes near its expiry
cookie_ages ==
    /\ dbCookie # NoCookie
    /\ ~dbNeedUpdate
    /\ dbNeedUpdate' = TRUE
    /\ last' = Slot("cookie_ages", <<>>, <<>>)
    /\ UNCHANGED <<cookie_input, cookie_status_label, cfgCookie, dbCookie>>
    /\ UNCHANGED <<crawlerVars, helperVars, dbComments>>

\* ------------------------------------------------------- show_cookie_helper
\* the id the next CookieHelper object gets
NewHelper == CHOOSE h \in 1..MaxHelpers :
                 /\ helperState[h] = "unborn"
                 /\ \A g \in 1..MaxHelpers : helperState[g] = "unborn" => h <= g

show_cookie_helper(fail) ==
    /\ ~closed
    /\ fail \in {"none", "CookieHelper"}
    /\ \E h \in 1..MaxHelpers : helperState[h] = "unborn"
    /\ IF fail = "CookieHelper"
           THEN /\ last' = Slot("show_cookie_helper", <<Call("CookieHelper", <<>>)>>,
                                <<Notice("critical", "helper_failed")>>)
                /\ UNCHANGED <<cookie_helper, helperState>>
           ELSE /\ helperState' = [helperState EXCEPT ![NewHelper] = "active"]
                /\ cookie_helper' = NewHelper
                /\ last' = Slot("show_cookie_helper", <<Call("CookieHelper", <<>>)>>, <<>>)
    /\ UNCHANGED <<cookieVars, crawlerVars, closed, dbComments>>

\* ------------------------------------------------------- on_cookie_received
\* mutant: the cookie is saved whatever set_cookie returns
on_cookie_received_run_unchecked(r, cookie, fail) ==
    LET shown == [r EXCEPT !.input = cookie]
        set == Config_set_cookie(shown.cfg, cookie)
        tried == Called([shown EXCEPT !.cfg = set.cookie], Call("set_cookie", cookie))
        saving == Called(tried, Call("save_cookie", cookie))
        saved == [saving EXCEPT !.db = Db_save_cookie(cookie)[1],
                                !.need = Db_save_cookie(cookie)[2]]
    IN  IF fail = "save_cookie"
            THEN Shown(saving, Notice("critical", "receive_failed"))
        ELSE Shown(load_settings_run(saved, fail), Notice("information", "received"))

\* mutant: the cookie is set in Config and reported, but not saved
on_cookie_received_run_unsaved(r, cookie, fail) ==
    LET shown == [r EXCEPT !.input = cookie]
        set == Config_set_cookie(shown.cfg, cookie)
        tried == Called([shown EXCEPT !.cfg = set.cookie], Call("set_cookie", cookie))
    IN  IF ~set.ok
            THEN tried
        ELSE Shown(load_settings_run(tried, fail), Notice("information", "received"))

on_cookie_received_run(r, cookie, fail) ==
    LET shown == [r EXCEPT !.input = cookie]
        set == Config_set_cookie(shown.cfg, cookie)
        tried == Called([shown EXCEPT !.cfg = set.cookie], Call("set_cookie", cookie))
        saving == Called(tried, Call("save_cookie", cookie))
        saved == [saving EXCEPT !.db = Db_save_cookie(cookie)[1],
                                !.need = Db_save_cookie(cookie)[2]]
    IN  IF ~set.ok
            THEN tried
        ELSE IF fail = "save_cookie"
            THEN Shown(saving, Notice("critical", "receive_failed"))
        ELSE Shown(load_settings_run(saved, fail), Notice("information", "received"))

\* helper h, constructed and not cleaned up, emits cookie_ready(cookie)
on_cookie_received(h, cookie, fail) ==
    /\ ~closed
    /\ helperState[h] = "active"
    /\ Reaches(on_cookie_received_run(Here, cookie, fail), fail)
    /\ Apply("on_cookie_received", on_cookie_received_run(Here, cookie, fail))
    /\ UNCHANGED <<crawlerVars, helperVars, dbComments>>

\* --------------------------------------------------------------- closeEvent
closeEvent ==
    /\ ~closed
    /\ closed' = TRUE
    /\ IF cookie_helper # 0
           THEN /\ helperState' = [helperState EXCEPT ![cookie_helper] = "cleaned"]
                /\ cookie_helper' = 0
                /\ last' = Slot("closeEvent", <<Call("cleanup", cookie_helper)>>, <<>>)
           ELSE /\ last' = Slot("closeEvent", <<>>, <<>>)
                /\ UNCHANGED <<cookie_helper, helperState>>
    /\ UNCHANGED <<cookieVars, crawlerVars, dbComments>>

\* ------------------------------------------------------------ save_settings
\* the three Config attributes save_settings writes, in the order it writes them
\* mutant: MAX_RETRIES is not written
save_settings_writes_two(mn, mx, rt) ==
    <<Call("DELAY_MIN", mn), Call("DELAY_MAX", mx)>>

save_settings_writes(mn, mx, rt) ==
    <<Call("DELAY_MIN", mn), Call("DELAY_MAX", mx), Call("MAX_RETRIES", rt)>>

\* the value a Config attribute has after a run of writes
AfterWrites(old, name, writes) ==
    LET hits == {i \in 1..Len(writes) : writes[i].fn = name}
    IN  IF hits = {} THEN old
        ELSE writes[CHOOSE i \in hits : \A j \in hits : j <= i].arg

\* (the except branch of save_settings is dead: the three statements of its try
\* block assign attributes of Config)
save_settings(mn, mx, rt) ==
    LET writes == save_settings_writes(mn, mx, rt)
    IN  /\ DELAY_MIN' = AfterWrites(DELAY_MIN, "DELAY_MIN", writes)
        /\ DELAY_MAX' = AfterWrites(DELAY_MAX, "DELAY_MAX", writes)
        /\ MAX_RETRIES' = AfterWrites(MAX_RETRIES, "MAX_RETRIES", writes)
        /\ last' = Slot("save_settings", writes, <<>>)

\* valueChanged of a spin box: the user picks another value of its range
min_delay_valueChanged(v) ==
    /\ ~closed
    /\ nWrites < MaxWrites
    /\ v \in DelayRangeMin..DelayRangeMax
    /\ v # min_delay
    /\ min_delay' = v
    /\ save_settings(v, max_delay, max_retries)
    /\ nWrites' = nWrites + 1
    /\ UNCHANGED <<max_delay, max_retries, cookieVars, helperVars, dbComments>>

max_delay_valueChanged(v) ==
    /\ ~closed
    /\ nWrites < MaxWrites
    /\ v \in DelayRangeMin..DelayRangeMax
    /\ v # max_delay
    /\ max_delay' = v
    /\ save_settings(min_delay, v, max_retries)
    /\ nWrites' = nWrites + 1
    /\ UNCHANGED <<min_delay, max_retries, cookieVars, helperVars, dbComments>>

max_retries_valueChanged(v) ==
    /\ ~closed
    /\ nWrites < MaxWrites
    /\ v \in RetryRangeMin..RetryRangeMax
    /\ v # max_retries
    /\ max_retries' = v
    /\ save_settings(min_delay, max_delay, v)
    /\ nWrites' = nWrites + 1
    /\ UNCHANGED <<min_delay, max_delay, cookieVars, helperVars, dbComments>>

\* ----------------------------------------------------------- clear_database
clear_database(reply, fail) ==
    /\ ~closed
    /\ fail \in {"none", "clear_database"}
    /\ (fail # "none" => Confirmed(reply))
    /\ IF ~Confirmed(reply)
           THEN /\ last' = Slot("clear_database", <<>>, <<Notice("question", reply)>>)
                /\ UNCHANGED dbComments
       ELSE IF fail = "clear_database"
           THEN /\ last' = Slot("clear_database", <<Call("clear_database", <<>>)>>,
                                <<Notice("question", reply),
                                  Notice("critical", "clear_db_failed")>>)
                /\ UNCHANGED dbComments
       ELSE /\ dbComments' = Db_clear_database
            /\ last' = Slot("clear_database", <<Call("clear_database", <<>>)>>,
                            <<Notice("question", reply),
                              Notice("information", "db_cleared")>>)
    /\ UNCHANGED <<cookieVars, crawlerVars, helperVars>>

\* ---------------------------------------------------------- backup_database
backup_database ==
    /\ ~closed
    /\ last' = Slot("backup_database", <<>>, <<Notice("information", "in_development")>>)
    /\ UNCHANGED <<cookieVars, crawlerVars, helperVars, dbComments>>

\* the crawler stores one more comment row
crawler_stores ==
    /\ dbComments < MaxComments
    /\ dbComments' = dbComments + 1
    /\ last' = Slot("crawler_stores", <<>>, <<>>)
    /\ UNCHANGED <<cookieVars, crawlerVars, helperVars>>

\* ----------------------------------------------------------- specifications
\* The cookie lifecycle and the crawler/database panels share no state: each
\* is checked with the other at rest.  NextCredential is the cookie lifecycle
\* with one helper launched at most; NextHelper is the helper's lifecycle, any
\* number of launches and the close, with the texts the helper emits.
NextCredential ==
    \/ \E t \in Texts : edit_cookie_input(t)
    \/ \E fail \in FailPoints : load_settings(fail)
    \/ validate_cookie
    \/ \E fail \in FailPoints : save_cookie(fail)
    \/ \E reply \in Replies, fail \in FailPoints : clear_cookie(reply, fail)
    \/ cookie_ages
    \/ \E fail \in FailPoints : cookie_helper = 0 /\ show_cookie_helper(fail)
    \/ \E h \in 1..MaxHelpers, t \in HelperCookies, fail \in FailPoints :
           on_cookie_received(h, t, fail)

NextHelper ==
    \/ \E fail \in FailPoints : show_cookie_helper(fail)
    \/ \E h \in 1..MaxHelpers, t \in HelperCookies, fail \in FailPoints :
           on_cookie_received(h, t, fail)
    \/ closeEvent

NextMaintenance ==
    \/ \E v \in EditValues : min_delay_valueChanged(v)
    \/ \E v \in EditValues : max_delay_valueChanged(v)
    \/ \E v \in EditValues : max_retries_valueChanged(v)
    \/ \E reply \in Replies, fail \in FailPoints : clear_database(reply, fail)
    \/ backup_database
    \/ crawler_stores
    \/ closeEvent

Next == NextCredential \/ NextHelper \/ NextMaintenance

InitCredential ==
    /\ DELAY_MIN = 1
    /\ DELAY_MAX = 3
    /\ MAX_RETRIES = 3
    /\ dbComments = 0
    /\ Init

InitMaintenance ==
    /\ dbCookie = NoCookie
    /\ cookie_status_label = "unset"
    /\ Init

Spec == Init /\ [][Next]_vars
SpecCredential == InitCredential /\ [][NextCredential]_vars
SpecHelper == InitCredential /\ [][NextHelper]_vars
SpecMaintenance == InitMaintenance /\ [][NextMaintenance]_vars

\* ================================================================== claims
\* What the last slot did, read off its record.
NoRaise(slot) == \A i \in 1..Len(slot.notices) : slot.notices[i].level # "critical"
HasNotice(slot, level, text) ==
    \E i \in 1..Len(slot.notices) : slot.notices[i] = Notice(level, text)
IsOneOf(c, fns) == c.fn \in fns
CallsTo(slot, fns) == SelectSeq(slot.calls, LAMBDA c : IsOneOf(c, fns))
Answered(slot, reply) == HasNotice(slot, "question", reply)

\* c is t without its leading and trailing whitespace
Trimmed(c, t) ==
    \E i \in 1..(Len(t) + 1), j \in 0..Len(t) :
        /\ c = SubSeq(t, i, j)
        /\ \A k \in 1..(i - 1) : t[k] = WS
        /\ \A k \in (j + 1)..Len(t) : t[k] = WS
        /\ c # <<>> => (c[1] # WS /\ c[Len(c)] # WS)

\* the text lacks one of the three required sub-fields
Missing(t) == \E f \in FieldSet : \A i \in 1..Len(t) : t[i] # f
WellFormed(t) == ~Missing(t)

SetThenSave(slot, c) ==
    CallsTo(slot, {"set_cookie", "save_cookie"})
        = <<Call("set_cookie", c), Call("save_cookie", c)>>

\* C1 as claimed: a save of a well-formed text in the input field, no
\* collaborator raising, makes exactly one set_cookie call and then exactly one
\* save_cookie call, both with the very text of the input field.
C1_SaveCallsWithInputText ==
    [][(last'.op = "save_cookie" /\ WellFormed(cookie_input) /\ NoRaise(last'))
          => SetThenSave(last', cookie_input)]_vars

\* C1 amended: a save of a well-formed text in the input field, no collaborator
\* raising, makes exactly one set_cookie call and then exactly one save_cookie
\* call, both with the text stripped of its leading and trailing whitespace.
C1_SaveCallsWithStrippedText ==
    [][(last'.op = "save_cookie" /\ WellFormed(cookie_input) /\ NoRaise(last'))
          => \E c \in Texts : Trimmed(c, cookie_input) /\ SetThenSave(last', c)]_vars

C1_Witness ==
    /\ last.op = "save_cookie"
    /\ NoRaise(last)
    /\ SetThenSave(last, dbCookie)
    /\ HasNotice(last, "information", "saved")
    /\ cookie_status_label = "valid"

\* C2: a text lacking one of the three required sub-fields is never persisted,
\* whichever slot handles it: validate_cookie answers it with a warning, and
\* validate_cookie, save_cookie and on_cookie_received make no save_cookie call
\* and leave the database's cookie as it was.
C2_MissingFieldNeverPersisted ==
    [][(\/ (last'.op \in {"validate_cookie", "save_cookie"} /\ Missing(cookie_input))
        \/ (last'.op = "on_cookie_received" /\ Missing(cookie_input')))
          => /\ CallsTo(last', {"save_cookie"}) = <<>>
             /\ dbCookie' = dbCookie
             /\ dbNeedUpdate' = dbNeedUpdate
             /\ last'.op = "validate_cookie" =>
                   /\ Len(last'.notices) = 1
                   /\ last'.notices[1].level = "warning"]_vars

C2_Witness ==
    /\ last.op = "on_cookie_received"
    /\ Missing(cookie_input)
    /\ cookie_input # <<>>
    /\ dbCookie # NoCookie
    /\ CallsTo(last, {"set_cookie"}) # <<>>

\* a slot that ended on a warning: empty input, or a text Config rejects
ValidationFailed(slot) ==
    /\ slot.op \in {"validate_cookie", "save_cookie"}
    /\ \E i \in 1..Len(slot.notices) : slot.notices[i].level = "warning"

\* C3 as claimed: a validation failure in validate_cookie or save_cookie leaves
\* Config's cookie, the database, the input field and the status label as they
\* were.
C3_FailureChangesNothing ==
    [][ValidationFailed(last') => UNCHANGED cookieVars]_vars

\* C3 amended: a validation failure in validate_cookie or save_cookie leaves
\* the database, the input field and the status label as they were; Config's
\* cookie is as it was too, except after save_cookie on a non-empty text that
\* Config rejects, which has cleared it.
C3_FailureChangesOnlyConfig ==
    [][ValidationFailed(last')
          => /\ UNCHANGED <<cookie_input, cookie_status_label, dbCookie, dbNeedUpdate>>
             /\ cfgCookie' =
                  IF last'.op = "save_cookie" /\ HasNotice(last', "warning", "malformed")
                      THEN NoCookie
                      ELSE cfgCookie]_vars

C3_Witness ==
    /\ last.op = "save_cookie"
    /\ HasNotice(last, "warning", "malformed")
    /\ cfgCookie = NoCookie
    /\ dbCookie # NoCookie
    /\ cookie_status_label = "expiring"

\* save_cookie ran on a non-empty text that fails structural validation
SaveRejected(slot, text) ==
    /\ slot.op = "save_cookie"
    /\ \E i \in 1..Len(text) : text[i] # WS
    /\ Missing(text)

\* C4 as claimed: after save_cookie on a non-empty text that fails validation
\* while a cookie is stored, no cookie is left: the database returns none and
\* Config holds none.
C4_RejectedSaveLeavesNoCookie ==
    [][(SaveRejected(last', cookie_input) /\ dbCookie # NoCookie)
          => /\ Db_get_valid_cookie(dbCookie', dbNeedUpdate')[1] = NoCookie
             /\ cfgCookie' = NoCookie]_vars

\* C4 amended: after save_cookie on a non-empty text that fails validation
\* while a cookie is stored, Config holds no cookie, and the database still
\* holds the cookie it held, with the near-expiry flag it had.
C4_RejectedSaveClearsConfigOnly ==
    [][(SaveRejected(last', cookie_input) /\ dbCookie # NoCookie)
          => /\ cfgCookie' = NoCookie
             /\ dbCookie' = dbCookie
             /\ dbNeedUpdate' = dbNeedUpdate
             /\ Db_get_valid_cookie(dbCookie', dbNeedUpdate')[1] = dbCookie]_vars

C4_Witness ==
    /\ last.op = "save_cookie"
    /\ SaveRejected(last, cookie_input)
    /\ CallsTo(last, {"clear_cookie", "set_cookie"}) # <<>>
    /\ cfgCookie = NoCookie
    /\ dbCookie # NoCookie
    /\ cookie_status_label = "valid"

\* C5: clear_cookie answered No changes nothing and calls no collaborator;
\* answered Yes it makes exactly one clear_cookies call, Config holds no cookie
\* and the input field is empty when the slot returns.
C5_ClearOnlyWhenConfirmed ==
    [][last'.op = "clear_cookie"
          => IF Answered(last', "Yes")
                 THEN /\ Len(CallsTo(last', {"clear_cookies"})) = 1
                      /\ cfgCookie' = NoCookie
                      /\ cookie_input' = <<>>
                 ELSE /\ UNCHANGED cookieVars
                      /\ last'.calls = <<>>]_vars

C5_Witness ==
    /\ last.op = "clear_cookie"
    /\ Answered(last, "Yes")
    /\ HasNotice(last, "information", "cleared")
    /\ cookie_input = <<>>
    /\ cookie_status_label = "unset"
    /\ dbCookie = NoCookie

\* the slot called get_valid_cookie and the call returned
Loaded(slot) ==
    /\ CallsTo(slot, {"get_valid_cookie"}) # <<>>
    /\ ~HasNotice(slot, "critical", "load_failed")

\* C6: whenever load_settings has run, the status label is "unset" when the
\* database returned no cookie, "expiring" when it returned one near expiry
\* and "valid" otherwise; a returned cookie is in the input field whatever was
\* there, and with no cookie load_settings leaves the input field as it was.
C6_LoadStatusMap ==
    [][Loaded(last')
          => /\ cookie_status_label' =
                  IF dbCookie' = NoCookie THEN "unset"
                  ELSE IF dbNeedUpdate' THEN "expiring" ELSE "valid"
             /\ dbCookie' # NoCookie => cookie_input' = dbCookie'
             /\ (last'.op = "load_settings" /\ dbCookie = NoCookie)
                    => cookie_input' = cookie_input]_vars

C6_Witness ==
    /\ last.op = "load_settings"
    /\ Loaded(last)
    /\ cookie_status_label = "expiring"
    /\ cookie_input = dbCookie
    /\ cfgCookie = NoCookie

\* C7: once a spin box value has changed, Config's DELAY_MIN, DELAY_MAX and
\* MAX_RETRIES are the three displayed values, each within its range, and the
\* save_settings run by a value change has written all three current values.
C7_ConfigMirrorsSpinBoxes ==
    nWrites > 0 =>
        /\ DELAY_MIN = min_delay
        /\ DELAY_MAX = max_delay
        /\ MAX_RETRIES = max_retries
        /\ DELAY_MIN \in DelayRangeMin..DelayRangeMax
        /\ DELAY_MAX \in DelayRangeMin..DelayRangeMax
        /\ MAX_RETRIES \in RetryRangeMin..RetryRangeMax
        /\ last.op = "save_settings" =>
              last.calls = <<Call("DELAY_MIN", min_delay), Call("DELAY_MAX", max_delay),
                             Call("MAX_RETRIES", max_retries)>>

\* three value changes have left 5, 10 and 3 in Config
C7_Witness ==
    /\ nWrites = 3
    /\ last.op = "save_settings"
    /\ DELAY_MIN = 5
    /\ DELAY_MAX = 10
    /\ MAX_RETRIES = 3

\* C8: clear_database answered No calls nothing and leaves the stored rows;
\* answered Yes it calls the database's clear_database exactly once, and when
\* that call raises the slot shows a critical message box and returns, the
\* rows as they were.
C8_ClearDatabaseOnlyWhenConfirmed ==
    [][last'.op = "clear_database"
          => IF Answered(last', "Yes")
                 THEN /\ last'.calls = <<Call("clear_database", <<>>)>>
                      /\ \/ /\ HasNotice(last', "information", "db_cleared")
                            /\ NoRaise(last')
                         \/ /\ HasNotice(last', "critical", "clear_db_failed")
                            /\ ~HasNotice(last', "information", "db_cleared")
                            /\ dbComments' = dbComments
                 ELSE /\ last'.calls = <<>>
                      /\ dbComments' = dbComments]_vars

C8_Witness ==
    /\ last.op = "clear_database"
    /\ Answered(last, "Yes")
    /\ HasNotice(last, "critical", "clear_db_failed")
    /\ dbComments > 0

\* C9: once the page is closed, no helper it constructed is left without
\* cleanup() called on it, and the page refers to no helper.
C9_CloseCleansEveryHelper ==
    closed =>
        /\ \A h \in 1..MaxHelpers : helperState[h] # "active"
        /\ cookie_helper = 0

ReportedSuccess(slot) ==
    \/ slot.op = "save_cookie" /\ HasNotice(slot, "information", "saved")
    \/ slot.op = "on_cookie_received" /\ HasNotice(slot, "information", "received")
    \/ slot.op = "clear_cookie" /\ HasNotice(slot, "information", "cleared")

====
